---- MODULE Spec2Model ----
(***************************************************************************)
(* A model of htmresearch/regions/TMRegion.py: the region adapter that     *)
(* wraps a temporal memory backend for the network API.                    *)
(*                                                                         *)
(* The region object is its attribute dictionary `self` (Python's          *)
(* self.__dict__): hasattr(self, n) is n \in DOMAIN self.  Dense vectors   *)
(* (numpy arrays) are functions over 0..n-1, as numpy indexes them.  The   *)
(* backend is an external collaborator: its answers to getActiveCells and  *)
(* getPredictiveCells are arbitrary sets of its cell indices.  Real valued *)
(* parameters are held in hundredths.                                      *)
(***************************************************************************)
EXTENDS Integers, Sequences, FiniteSets, TLC

VARIABLES
  self,      \* the attribute dictionary of the TMRegion instance
  outputs,   \* the output arrays the network hands to compute
  created,   \* how many backend instances createModel has built so far
  history,   \* "uninit" until a backend is built; "clean" when it was just
             \* built or reset; "stepped" once a compute has updated the
             \* derived state with no reset after it
  last       \* the last call made on the region: what it was given, the
             \* history it started from, the backend calls it made, in
             \* order, and the exception it raised ("none" if it returned)

vars == <<self, outputs, created, history, last>>

(***************************************************************************)
(* Bounds of the model.                                                    *)
(***************************************************************************)
MaxCells == 1
MaxBackends == 2

(***************************************************************************)
(* Dense vectors.                                                          *)
(***************************************************************************)
Length(v) == Cardinality(DOMAIN v)

\* numpy.zeros(n)
Zeros(n) == [i \in 0..(n - 1) |-> 0]

\* numpy.ones(n)
Ones(n) == [i \in 0..(n - 1) |-> 1]

\* v[:] = 0 ; v[cells] = 1
Dense(v, cells) == [i \in DOMAIN v |-> IF i \in cells THEN 1 ELSE 0]

\* numpy.where(v == 1)[0], as a set
WhereOne(v) == {i \in DOMAIN v : v[i] = 1}

\* a * b, elementwise, of two arrays of one length
Times(a, b) == [i \in DOMAIN a |-> a[i] * b[i]]

\* dst[:] = src is defined when the lengths agree or src has one element,
\* which numpy broadcasts; otherwise numpy raises ValueError
CanAssign(dst, src) == Length(src) = Length(dst) \/ Length(src) = 1

Assign(dst, src) ==
  IF Length(src) = Length(dst) THEN src ELSE [i \in DOMAIN dst |-> src[0]]

\* a coercion that takes 1 alone for true
BoolOnlyOne(x) == x = 1

\* bool(x) of a number
Bool(x) == x # 0

(***************************************************************************)
(* The values in play.                                                     *)
(***************************************************************************)
None == [id |-> 0, kind |-> "None", numberOfCells |-> 0, computeArgs |-> 0]

OutputNames == {"bottomUpOut", "predictedActiveCells", "predictiveCells",
                "activeCells"}

DefaultOutputTypes == {"active", "predictive", "predictedActiveCells"}

HasAttr(s, name) == name \in DOMAIN s

SetAttr(s, name, value) ==
  IF name \in DOMAIN s THEN [s EXCEPT ![name] = value]
  ELSE s @@ (name :> value)

NoCall ==
  [op |-> "none", args |-> <<>>, before |-> "uninit", raised |-> "none",
   calls |-> <<>>]

(***************************************************************************)
(* TMRegion.__init__                                                       *)
(***************************************************************************)
\* fic is the formInternalConnections argument
Construct(columnCount, cellsPerColumn, temporalImp, fic, defaultOutputType) ==
  [ columnCount |-> columnCount,
    cellsPerColumn |-> cellsPerColumn,
    activationThreshold |-> 13,
    initialPermanence |-> 21,
    connectedPermanence |-> 50,
    minThreshold |-> 10,
    maxNewSynapseCount |-> 20,
    permanenceIncrement |-> 10,
    permanenceDecrement |-> 10,
    predictedSegmentDecrement |-> 0,
    seed |-> 42,
    learnOnOneCell |-> Bool(1),
    learningMode |-> TRUE,
    inferenceMode |-> TRUE,
    temporalImp |-> temporalImp,
    formInternalConnections |-> Bool(fic),
    defaultOutputType |-> defaultOutputType,
    _tm |-> None ]

Init ==
  /\ \E cpc \in 1..MaxCells, imp \in {"tm", "extended"} :
       self = Construct(1, cpc, imp, 1, "active")
  /\ outputs = <<>>
  /\ created = 0
  /\ history = "uninit"
  /\ last = NoCall

(***************************************************************************)
(* TMRegion.getOutputElementCount                                          *)
(***************************************************************************)
\* a count that leaves cellsPerColumn out
GetOutputElementCountColumns(s, name) ==
  IF name \in {"bottomUpOut", "predictedActiveCells", "predictiveCells",
               "activeCells"}
  THEN [raised |-> "none", value |-> s.columnCount]
  ELSE [raised |-> "Exception", value |-> 0]

GetOutputElementCount(s, name) ==
  IF name \in OutputNames
  THEN [raised |-> "none", value |-> s.columnCount * s.cellsPerColumn]
  ELSE [raised |-> "Exception", value |-> 0]

\* The network sizes every output array with getOutputElementCount when it
\* initializes the region, and never again.
AllocateOutputs(s) ==
  [name \in OutputNames |-> Zeros(GetOutputElementCount(s, name).value)]

(***************************************************************************)
(* The backend factory (htmresearch.algorithms.temporal_memory_factory)    *)
(* and the backend's capability contract.  A Basic backend's compute takes *)
(* (self, activeColumns, learn); an Extended backend's takes, besides,     *)
(* activeExternalCells, activeApicalCells and formInternalConnections.     *)
(***************************************************************************)
KnownBackends == {"tm", "extended"}

BasicParameters ==
  {"columnDimensions", "cellsPerColumn", "activationThreshold",
   "initialPermanence", "connectedPermanence", "minThreshold",
   "maxNewSynapseCount", "permanenceIncrement", "permanenceDecrement",
   "predictedSegmentDecrement", "seed"}

\* getConstructorArguments(temporalImp)[0]
GetConstructorArguments(temporalImp) ==
  IF temporalImp = "extended"
  THEN BasicParameters \cup {"learnOnOneCell", "formInternalConnections"}
  ELSE BasicParameters

\* createModel(temporalImp, **args): instance number `id`
CreateModel(temporalImp, args, id) ==
  [ id |-> id,
    kind |-> IF temporalImp = "extended" THEN "Extended" ELSE "Basic",
    numberOfCells |-> args.columnDimensions[1] * args.cellsPerColumn,
    computeArgs |-> IF temporalImp = "extended" THEN 6 ELSE 3 ]

\* what the backend may answer to getActiveCells / getPredictiveCells
CellSets(tm) == SUBSET (0..(tm.numberOfCells - 1))

(***************************************************************************)
(* A call in progress: the attribute dictionary and the output arrays as   *)
(* written so far, the backend calls made so far, and the exception that   *)
(* ended it ("none" while it runs).  A statement after a raise is not run. *)
(***************************************************************************)
Frame(s, o, h) ==
  [self |-> s, outputs |-> o, history |-> h, calls |-> <<>>,
   raised |-> "none", predictedActiveCells |-> <<>>]

Raise(f, exception) == [f EXCEPT !.raised = exception]

Called(f, call) == [f EXCEPT !.calls = Append(@, call)]

(***************************************************************************)
(* TMRegion.initialize                                                     *)
(***************************************************************************)
\* a filter that drops nothing
FilterArgsKeepAll(args, expectedArgs) == args

\* lines 330-339: the candidate arguments, cut down to the expected ones
FilterArgs(args, expectedArgs) ==
  [arg \in (DOMAIN args) \cap expectedArgs |-> args[arg]]

CandidateArgs(s) == s @@ ("columnDimensions" :> <<s.columnCount>>)

\* an initialize that allocates the derived state before it asks the
\* factory for the backend
InitializeBodyAllocatesFirst(f, id) ==
  IF f.self._tm # None THEN f
  ELSE
    LET n == f.self.columnCount * f.self.cellsPerColumn
        s1 == SetAttr(f.self, "activeState", Zeros(n))
        s2 == SetAttr(s1, "previouslyPredictedCells", Zeros(n))
        args == FilterArgs(CandidateArgs(f.self),
                           GetConstructorArguments(f.self.temporalImp))
    IN  IF f.self.temporalImp \notin KnownBackends
        THEN Raise([f EXCEPT !.self = s2], "Exception")
        ELSE [Called(f, [op |-> "createModel",
                         temporalImp |-> f.self.temporalImp, args |-> args])
                EXCEPT !.self = SetAttr(s2, "_tm",
                                        CreateModel(f.self.temporalImp, args,
                                                    id)),
                       !.history = "clean"]

\* the arguments createModel is given
ModelArgs(s) ==
  FilterArgs(CandidateArgs(s), GetConstructorArguments(s.temporalImp))

\* initialize, where tm is the instance createModel returns
InitializeBodyGiven(f, tm) ==
  IF f.self._tm # None THEN f
  ELSE IF f.self.temporalImp \notin KnownBackends THEN Raise(f, "Exception")
  ELSE
    LET s1 == SetAttr(f.self, "_tm", tm)
        s2 == SetAttr(s1, "activeState", Zeros(tm.numberOfCells))
        s3 == SetAttr(s2, "previouslyPredictedCells", Zeros(tm.numberOfCells))
    IN  [Called(f, [op |-> "createModel", temporalImp |-> f.self.temporalImp,
                    args |-> ModelArgs(f.self)])
           EXCEPT !.self = s3, !.history = "clean"]

InitializeBody(f, id) ==
  InitializeBodyGiven(f, CreateModel(f.self.temporalImp, ModelArgs(f.self), id))

(***************************************************************************)
(* TMRegion.reset                                                          *)
(***************************************************************************)
\* reset that leaves previouslyPredictedCells as it is
ZeroPredictedSkipped(s) == s

\* line 420
ZeroPredicted(s) ==
  [s EXCEPT !.previouslyPredictedCells = Zeros(Length(@))]

\* a reset that calls the backend's reset twice
ResetBodyTwice(f) ==
  IF f.self._tm # None
  THEN [Called(Called(f, [op |-> "reset"]), [op |-> "reset"])
          EXCEPT !.self = ZeroPredicted(f.self), !.history = "clean"]
  ELSE f

\* a reset that keeps the active cells as the predictive set of the next
\* step, and clears the active cells
ResetBodyShifting(f) ==
  IF f.self._tm # None
  THEN [Called(f, [op |-> "reset"])
          EXCEPT !.self = [f.self EXCEPT
                             !.previouslyPredictedCells = f.self.activeState,
                             !.activeState = Zeros(Length(@))],
                 !.history = "clean"]
  ELSE f

ResetBody(f) ==
  IF f.self._tm # None
  THEN [Called(f, [op |-> "reset"])
          EXCEPT !.self = ZeroPredicted(f.self), !.history = "clean"]
  ELSE f

(***************************************************************************)
(* TMRegion.compute, statement by statement.  `inputs` is the dictionary   *)
(* of input arrays; active and predictive are the backend's answers.       *)
(***************************************************************************)
\* lines 362-370: an optional input as a set of indices, None when absent
OptionalCells(inputs, name) ==
  IF name \in DOMAIN inputs
  THEN [present |-> TRUE, cells |-> WhereOne(inputs[name])]
  ELSE [present |-> FALSE, cells |-> {}]

\* lines 360-383: the backend's compute, with the arguments of its variant
\* a backend call that uses the plain convention for every backend
BackendComputeBasicOnly(f, inputs) ==
  IF "bottomUpIn" \notin DOMAIN inputs THEN Raise(f, "KeyError")
  ELSE IF f.self._tm = None THEN Raise(f, "AttributeError")
  ELSE Called(f, [op |-> "compute",
                  activeColumns |-> WhereOne(inputs.bottomUpIn),
                  learn |-> f.self.learningMode])

\* a backend call that uses the extended convention for every backend
BackendComputeExtendedOnly(f, inputs) ==
  IF "bottomUpIn" \notin DOMAIN inputs THEN Raise(f, "KeyError")
  ELSE IF f.self._tm = None THEN Raise(f, "AttributeError")
  ELSE Called(f, [op |-> "compute",
                  activeColumns |-> WhereOne(inputs.bottomUpIn),
                  activeExternalCells |->
                    OptionalCells(inputs, "externalInput"),
                  activeApicalCells |-> OptionalCells(inputs, "topDownIn"),
                  formInternalConnections |->
                    f.self.formInternalConnections,
                  learn |-> f.self.learningMode])

BackendCompute(f, inputs) ==
  IF "bottomUpIn" \notin DOMAIN inputs THEN Raise(f, "KeyError")
  ELSE IF f.self._tm = None THEN Raise(f, "AttributeError")
  ELSE IF f.self._tm.computeArgs > 3
  THEN Called(f, [op |-> "compute",
                  activeColumns |-> WhereOne(inputs.bottomUpIn),
                  activeExternalCells |-> OptionalCells(inputs, "externalInput"),
                  activeApicalCells |-> OptionalCells(inputs, "topDownIn"),
                  formInternalConnections |-> f.self.formInternalConnections,
                  learn |-> f.self.learningMode])
  ELSE Called(f, [op |-> "compute",
                  activeColumns |-> WhereOne(inputs.bottomUpIn),
                  learn |-> f.self.learningMode])

\* DerivedState with previouslyPredictedCells overwritten before it is used
DerivedStateOverwriteFirst(f, active, predictive) ==
  IF f.raised # "none" THEN f
  ELSE
    LET activeState == Dense(f.self.activeState, active)
        previouslyPredictedCells ==
          Dense(f.self.previouslyPredictedCells, predictive)
        predictedActiveCells == Times(activeState, previouslyPredictedCells)
    IN  [Called(Called(f, [op |-> "getActiveCells", cells |-> active]),
                [op |-> "getPredictiveCells", cells |-> predictive])
           EXCEPT !.self = [f.self EXCEPT
                              !.activeState = activeState,
                              !.previouslyPredictedCells =
                                 previouslyPredictedCells],
                  !.predictedActiveCells = predictedActiveCells,
                  !.history = "stepped"]

\* lines 387-392: activeState, predictedActiveCells, previouslyPredictedCells
DerivedState(f, active, predictive) ==
  IF f.raised # "none" THEN f
  ELSE
    LET activeState == Dense(f.self.activeState, active)
        predictedActiveCells ==
          Times(activeState, f.self.previouslyPredictedCells)
        previouslyPredictedCells ==
          Dense(f.self.previouslyPredictedCells, predictive)
    IN  [Called(Called(f, [op |-> "getActiveCells", cells |-> active]),
                [op |-> "getPredictiveCells", cells |-> predictive])
           EXCEPT !.self = [f.self EXCEPT
                              !.activeState = activeState,
                              !.previouslyPredictedCells =
                                 previouslyPredictedCells],
                  !.predictedActiveCells = predictedActiveCells,
                  !.history = "stepped"]

\* outputs[name][:] = value
WriteOutput(f, name, value) ==
  IF f.raised # "none" THEN f
  ELSE IF ~CanAssign(f.outputs[name], value) THEN Raise(f, "ValueError")
  ELSE [f EXCEPT !.outputs[name] = Assign(@, value)]

\* lines 395-397
CopyOutputs(f) ==
  IF f.raised # "none" THEN f
  ELSE WriteOutput(
         WriteOutput(
           WriteOutput(f, "activeCells", f.self.activeState),
           "predictiveCells", f.self.previouslyPredictedCells),
         "predictedActiveCells", f.predictedActiveCells)

\* the default output written without looking at defaultOutputType
SelectOutputAlwaysActive(f) ==
  IF f.raised # "none" THEN f
  ELSE IF f.self.defaultOutputType \in DefaultOutputTypes
  THEN WriteOutput(f, "bottomUpOut", f.self.activeState)
  ELSE Raise(f, "Exception")

\* lines 400-407
SelectOutput(f) ==
  IF f.raised # "none" THEN f
  ELSE IF f.self.defaultOutputType = "active"
  THEN WriteOutput(f, "bottomUpOut", f.self.activeState)
  ELSE IF f.self.defaultOutputType = "predictive"
  THEN WriteOutput(f, "bottomUpOut", f.self.previouslyPredictedCells)
  ELSE IF f.self.defaultOutputType = "predictedActiveCells"
  THEN WriteOutput(f, "bottomUpOut", f.predictedActiveCells)
  ELSE Raise(f, "Exception")

\* lines 410-413
\* a resetIn handling that reads the first element whatever the length is
HandleResetInTruncating(f, inputs) ==
  IF f.raised # "none" THEN f
  ELSE IF "resetIn" \notin DOMAIN inputs THEN f
  ELSE IF Length(inputs.resetIn) = 0 THEN Raise(f, "IndexError")
  ELSE IF inputs.resetIn[0] # 0 THEN ResetBody(f)
  ELSE f

\* a resetIn handling that also resets on a nonzero sequenceIdIn
HandleResetInOrSequenceId(f, inputs) ==
  IF f.raised # "none" THEN f
  ELSE IF "sequenceIdIn" \in DOMAIN inputs /\ inputs.sequenceIdIn[0] # 0
  THEN ResetBody(f)
  ELSE IF "resetIn" \notin DOMAIN inputs THEN f
  ELSE IF Length(inputs.resetIn) # 1 THEN Raise(f, "AssertionError")
  ELSE IF inputs.resetIn[0] # 0 THEN ResetBody(f)
  ELSE f

HandleResetIn(f, inputs) ==
  IF f.raised # "none" THEN f
  ELSE IF "resetIn" \notin DOMAIN inputs THEN f
  ELSE IF Length(inputs.resetIn) # 1 THEN Raise(f, "AssertionError")
  ELSE IF inputs.resetIn[0] # 0 THEN ResetBody(f)
  ELSE f

\* compute with resetIn handled before the outputs are written
ComputeBodyResetBeforeOutputs(f, inputs, active, predictive) ==
  SelectOutput(
    CopyOutputs(
      HandleResetIn(
        DerivedState(BackendCompute(f, inputs), active, predictive),
        inputs)))

\* compute with resetIn handled before the input is processed
ComputeBodyResetFirst(f, inputs, active, predictive) ==
  SelectOutput(
    CopyOutputs(
      DerivedState(BackendCompute(HandleResetIn(f, inputs), inputs),
                   active, predictive)))

\* lines 350-413
\* a compute that returns at once while there is no backend, as reset does
ComputeBodyGuarded(f, inputs, active, predictive) ==
  IF f.self._tm = None THEN f
  ELSE HandleResetIn(
         SelectOutput(
           CopyOutputs(
             DerivedState(BackendCompute(f, inputs), active, predictive))),
         inputs)

ComputeBody(f, inputs, active, predictive) ==
  HandleResetIn(
    SelectOutput(
      CopyOutputs(
        DerivedState(BackendCompute(f, inputs), active, predictive))),
    inputs)

(***************************************************************************)
(* TMRegion.setParameter                                                   *)
(***************************************************************************)
BoolParameters == {"learningMode", "inferenceMode", "formInternalConnections"}

SetParameterBody(f, parameterName, parameterValue) ==
  IF parameterName \in BoolParameters
  THEN [f EXCEPT !.self = SetAttr(@, parameterName, Bool(parameterValue))]
  ELSE IF HasAttr(f.self, parameterName)
  THEN [f EXCEPT !.self = SetAttr(@, parameterName, parameterValue)]
  ELSE Raise(f, "Exception")

(***************************************************************************)
(* The calls the network, or any other caller, makes on the region.        *)
(***************************************************************************)
Vec(seq) == [i \in 0..(Len(seq) - 1) |-> seq[i + 1]]

ResetInputs == {Vec(<<0>>), Vec(<<1>>), Vec(<<1, 0>>)}

ComputeInputs ==
  {[bottomUpIn |-> Vec(<<1, 0>>)]}
    \cup {[bottomUpIn |-> Vec(<<1, 0>>), resetIn |-> r] : r \in ResetInputs}
    \cup {[bottomUpIn |-> Vec(<<2, 1>>), externalInput |-> Vec(<<0, 1>>),
           topDownIn |-> Vec(<<1, 1>>)]}

\* the parameters getSpec declares, which the network lets a caller set
DeclaredParameters ==
  {"columnCount", "inputWidth", "defaultOutputType"}

\* attributes of the instance that are no parameters
InternalAttributes == {"_tm", "activeState", "previouslyPredictedCells"}

ParameterValues(s, name) ==
  CASE name \in BoolParameters -> {0, 1, 2}
    [] name \in {"columnCount", "cellsPerColumn"} -> 1..(MaxCells + 1)
    [] name = "temporalImp" -> KnownBackends \cup {"bogus"}
    [] name = "defaultOutputType" -> DefaultOutputTypes \cup {"bogus"}
    [] name = "_tm" -> {None}
    [] name \in {"activeState", "previouslyPredictedCells"} ->
         IF HasAttr(s, name) THEN {Ones(Length(s[name]))} ELSE {Ones(1)}
    [] OTHER -> {1}

Finish(f, op, args) ==
  /\ self' = f.self
  /\ outputs' = f.outputs
  /\ history' = f.history
  /\ last' = [op |-> op, args |-> args, before |-> history,
              raised |-> f.raised, calls |-> f.calls]

Initialize ==
  /\ \/ self._tm # None
     \/ /\ created < MaxBackends
        /\ self.columnCount * self.cellsPerColumn <= MaxCells
  /\ LET o == IF DOMAIN outputs = {} THEN AllocateOutputs(self) ELSE outputs
         f == InitializeBody(Frame(self, o, history), created + 1)
     IN  /\ Finish(f, "initialize", <<>>)
         /\ created' = created + Len(f.calls)

Compute(inputs, active, predictive) ==
  /\ Finish(ComputeBody(Frame(self, outputs, history), inputs, active,
                        predictive),
            "compute", inputs)
  /\ UNCHANGED created

Reset ==
  /\ Finish(ResetBody(Frame(self, outputs, history)), "reset", <<>>)
  /\ UNCHANGED created

SetParameter(parameterName, parameterValue) ==
  /\ Finish(SetParameterBody(Frame(self, outputs, history), parameterName,
                             parameterValue),
            "setParameter", <<parameterName, parameterValue>>)
  /\ UNCHANGED created

ComputeStep ==
  \E inputs \in ComputeInputs :
    \E active \in CellSets(self._tm), predictive \in CellSets(self._tm) :
      Compute(inputs, active, predictive)

SetDeclared ==
  \E name \in DeclaredParameters :
    \E value \in ParameterValues(self, name) : SetParameter(name, value)

SetInternal ==
  \E name \in InternalAttributes :
    \E value \in ParameterValues(self, name) : SetParameter(name, value)

\* a backend that reports n cells, whatever it was built with
Reporting(tm, n) == [tm EXCEPT !.numberOfCells = n]

InitializeReporting(n) ==
  /\ \/ self._tm # None
     \/ /\ created < MaxBackends
        /\ self.columnCount * self.cellsPerColumn <= MaxCells
  /\ LET o == IF DOMAIN outputs = {} THEN AllocateOutputs(self) ELSE outputs
         tm == CreateModel(self.temporalImp, ModelArgs(self), created + 1)
         f == InitializeBodyGiven(Frame(self, o, history), Reporting(tm, n))
     IN  /\ Finish(f, "initialize", <<>>)
         /\ created' = created + Len(f.calls)

InitializeAnyCount == \E n \in 1..(MaxCells + 1) : InitializeReporting(n)

\* resetIn arrays that have not exactly one element
MalformedResetInputs == {Vec(<<>>), Vec(<<0, 1>>)}

ComputeMalformed ==
  \E r \in MalformedResetInputs :
    \E active \in CellSets(self._tm), predictive \in CellSets(self._tm) :
      Compute([bottomUpIn |-> Vec(<<1, 0>>), resetIn |-> r], active,
              predictive)

SetImplementation ==
  \E value \in ParameterValues(self, "temporalImp") :
    SetParameter("temporalImp", value)

\* the names getOutputElementCount is asked about: the outputs of getSpec,
\* the output of L2Column, an input
QueriedNames == OutputNames \cup {"feedForwardOutput", "bottomUpIn"}

GetOutputElementCountCall(name) ==
  LET r == GetOutputElementCount(self, name)
  IN  /\ last' = [op |-> "getOutputElementCount", args |-> <<name>>,
                  before |-> history, raised |-> r.raised, calls |-> <<>>,
                  value |-> r.value]
      /\ UNCHANGED <<self, outputs, created, history>>

Query == \E name \in QueriedNames : GetOutputElementCountCall(name)

SetShape ==
  \E name \in {"columnCount", "cellsPerColumn"} :
    \E value \in ParameterValues(self, name) : SetParameter(name, value)

SetMode ==
  \E name \in BoolParameters :
    \E value \in ParameterValues(self, name) : SetParameter(name, value)

\* the sequenceIdIn arrays the network may hand to compute
SequenceIdInputs == {Vec(<<0>>), Vec(<<7>>)}

WithSequenceId(inputs, sid) == inputs @@ ("sequenceIdIn" :> sid)

ComputeTagged ==
  \E inputs \in ComputeInputs, sid \in SequenceIdInputs :
    \E active \in CellSets(self._tm), predictive \in CellSets(self._tm) :
      Compute(WithSequenceId(inputs, sid), active, predictive)

\* the region driven through the network: only declared parameters are set
Next == Initialize \/ ComputeStep \/ Reset \/ SetDeclared

Spec == Init /\ [][Next]_vars

\* the region called directly: setParameter is given any name
NextDirect == Initialize \/ ComputeStep \/ Reset \/ SetDeclared \/ SetInternal

SpecDirect == Init /\ [][NextDirect]_vars

\* the region as constructed, stepped with resetIn arrays of every length
NextResetIn == Initialize \/ ComputeStep \/ ComputeMalformed \/ Reset

SpecResetIn == Init /\ [][NextResetIn]_vars

\* the region whose temporalImp is set, to names the factory knows and to
\* one it does not know
NextImp == Initialize \/ ComputeStep \/ Reset \/ SetImplementation

SpecImp == Init /\ [][NextImp]_vars

\* the region over a backend whose cell count is whatever it reports
NextBackend == InitializeAnyCount \/ ComputeStep \/ Reset

SpecBackend == Init /\ [][NextBackend]_vars

\* the region asked for the size of its outputs, between calls that change
\* columnCount and cellsPerColumn
NextQuery == Initialize \/ ComputeStep \/ Reset \/ SetShape \/ Query

SpecQuery == Init /\ [][NextQuery]_vars

\* the region whose learningMode, inferenceMode and formInternalConnections
\* are set, to 0, 1 and 2
NextModes == Initialize \/ ComputeStep \/ Reset \/ SetMode

SpecModes == Init /\ [][NextModes]_vars

\* the region as constructed, stepped with and without a sequenceIdIn
NextSequence == Initialize \/ ComputeStep \/ ComputeTagged \/ Reset

SpecSequence == Init /\ [][NextSequence]_vars

(***************************************************************************)
(* htmresearch/regions/L2Column.py: the second region of the package.  Its *)
(* instance is held in `self` as well; it has no backend, and its          *)
(* initialize, compute and reset change nothing.                           *)
(***************************************************************************)
\* L2Column.__init__
L2Construct(columnCount, cellsPerColumn, defaultOutputType) ==
  [ columnCount |-> columnCount,
    cellsPerColumn |-> cellsPerColumn,
    inputWidth |-> columnCount * cellsPerColumn,
    activationThreshold |-> 13,
    initialPermanence |-> 21,
    connectedPermanence |-> 50,
    minThreshold |-> 10,
    maxNewSynapseCount |-> 20,
    permanenceIncrement |-> 10,
    permanenceDecrement |-> 10,
    predictedSegmentDecrement |-> 0,
    seed |-> 42,
    learningMode |-> TRUE,
    inferenceMode |-> TRUE,
    defaultOutputType |-> defaultOutputType ]

L2Init ==
  /\ \E cc \in 1..(MaxCells + 1), cpc \in 1..(MaxCells + 1) :
       self = L2Construct(cc, cpc, "active")
  /\ outputs = <<>>
  /\ created = 0
  /\ history = "uninit"
  /\ last = NoCall

L2BoolParameters == {"learningMode", "inferenceMode"}

\* L2Column.setParameter, up to its last line
L2SetAttribute(f, parameterName, parameterValue) ==
  IF parameterName \in L2BoolParameters
  THEN [f EXCEPT !.self = SetAttr(@, parameterName, Bool(parameterValue))]
  ELSE IF HasAttr(f.self, parameterName)
  THEN [f EXCEPT !.self = SetAttr(@, parameterName, parameterValue)]
  ELSE Raise(f, "Exception")

\* a setParameter without the last line
L2SetParameterBodyNoDerive(f, parameterName, parameterValue) ==
  L2SetAttribute(f, parameterName, parameterValue)

\* L2Column.setParameter
L2SetParameterBody(f, parameterName, parameterValue) ==
  LET g == L2SetAttribute(f, parameterName, parameterValue)
  IN  IF g.raised # "none" THEN g
      ELSE [g EXCEPT !.self = SetAttr(@, "inputWidth",
                                      g.self.columnCount
                                        * g.self.cellsPerColumn)]

L2ParameterNames ==
  {"columnCount", "cellsPerColumn", "inputWidth", "learningMode",
   "defaultOutputType", "formInternalConnections", "bogus"}

L2ParameterValues(name) ==
  CASE name \in {"columnCount", "cellsPerColumn"} -> 1..(MaxCells + 1)
    [] name = "inputWidth" -> {0, 7}
    [] name = "learningMode" -> {0, 2}
    [] name = "defaultOutputType" -> {"active", "predictive"}
    [] OTHER -> {1}

L2SetParameter(parameterName, parameterValue) ==
  /\ Finish(L2SetParameterBody(Frame(self, outputs, history), parameterName,
                               parameterValue),
            "setParameter", <<parameterName, parameterValue>>)
  /\ UNCHANGED created

L2Set ==
  \E name \in L2ParameterNames :
    \E value \in L2ParameterValues(name) : L2SetParameter(name, value)

\* L2Column.initialize, compute and reset
L2Idle ==
  \E op \in {"initialize", "compute", "reset"} :
    /\ Finish(Frame(self, outputs, history), op, <<>>)
    /\ UNCHANGED created

L2Next == L2Set \/ L2Idle

SpecL2 == L2Init /\ [][L2Next]_vars

(***************************************************************************)
(* Vocabulary of the properties.                                           *)
(***************************************************************************)
\* pa is the elementwise AND of the 0/1 vectors a and p
IsAnd(pa, a, p) ==
  /\ DOMAIN pa = DOMAIN a
  /\ DOMAIN pa = DOMAIN p
  /\ \A i \in DOMAIN pa :
       /\ pa[i] \in {0, 1}
       /\ pa[i] = 1 <=> (a[i] = 1 /\ p[i] = 1)

AllZero(v) == \A i \in DOMAIN v : v[i] = 0

SomeOne(v) == \E i \in DOMAIN v : v[i] = 1

\* v is the dense form, over n cells, of the set cells
IsDense(v, n, cells) ==
  /\ DOMAIN v = 0..(n - 1)
  /\ \A i \in DOMAIN v : v[i] = 1 <=> i \in cells
  /\ \A i \in DOMAIN v : v[i] \in {0, 1}

\* the call in `l` was a compute that returned
Computed(l) == l.op = "compute" /\ l.raised = "none"

\* the call in `l` was a compute given a well formed, nonzero resetIn
CarriedReset(l) ==
  /\ l.op = "compute"
  /\ "resetIn" \in DOMAIN l.args
  /\ Length(l.args.resetIn) = 1
  /\ l.args.resetIn[0] # 0

\* the names of the backend calls made, in order
CallOps(l) == [k \in 1..Len(l.calls) |-> l.calls[k].op]

\* the fields of the Configuration
ConfigurationFields ==
  {"columnCount", "cellsPerColumn", "activationThreshold",
   "initialPermanence", "connectedPermanence", "minThreshold",
   "maxNewSynapseCount", "permanenceIncrement", "permanenceDecrement",
   "predictedSegmentDecrement", "seed", "learnOnOneCell", "learningMode",
   "inferenceMode", "temporalImp", "formInternalConnections",
   "defaultOutputType"}

(***************************************************************************)
(* C1.  A compute step that follows another compute step, with no reset    *)
(* between the two, writes as predictedActiveCells the elementwise AND of  *)
(* the activeCells it writes and the predictiveCells output the previous   *)
(* step wrote.                                                             *)
(***************************************************************************)
C1_PredictedActiveIsActiveAndPreviousPredictive ==
  [][(Computed(last') /\ last'.before = "stepped")
       => IsAnd(outputs'.predictedActiveCells, outputs'.activeCells,
                outputs.predictiveCells)]_vars

\* a cell that the previous step predicted is active in this step
C1_Witness ==
  /\ Computed(last)
  /\ last.before = "stepped"
  /\ SomeOne(outputs.predictedActiveCells)

(***************************************************************************)
(* C2.  A compute step that comes right after a reset (a reset command, or *)
(* the reset a nonzero resetIn made at the end of the previous step), or   *)
(* that is the first after the backend was built, writes an all-zero       *)
(* predictedActiveCells whatever the backend reports as active.            *)
(***************************************************************************)
C2_NoLeakAfterReset ==
  (Computed(last) /\ last.before = "clean")
    => AllZero(outputs.predictedActiveCells)

\* after a reset the backend reports active cells, and none is
\* predicted-active
C2_Witness ==
  /\ Computed(last)
  /\ last.before = "clean"
  /\ created = 1
  /\ SomeOne(outputs.activeCells)

\* a reset command has just cleared a predictive set that was not empty
C2_ResetWitness ==
  /\ last.op = "reset"
  /\ last.before = "stepped"
  /\ SomeOne(outputs.predictiveCells)
  /\ AllZero(self.previouslyPredictedCells)

(***************************************************************************)
(* C3.  A compute step given a nonzero resetIn writes the outputs the same *)
(* step writes when it is given no resetIn (so the predictiveCells output  *)
(* is the backend's predictive set, not zero), and the reset shows only in *)
(* the state the next step starts from.                                    *)
(***************************************************************************)
WithoutResetIn(inputs) ==
  [name \in (DOMAIN inputs) \ {"resetIn"} |-> inputs[name]]

\* what the backend answered to the query `op` during the call in `l`
Response(l, op) ==
  LET ks == {k \in 1..Len(l.calls) : l.calls[k].op = op}
  IN  IF ks = {} THEN {} ELSE l.calls[CHOOSE k \in ks : TRUE].cells

C5_BackendBuiltOnce ==
  [][/\ created' <= 1
     /\ (last'.op = "initialize" /\ created >= 1) => self' = self]_vars

(***************************************************************************)
(* C6.  A compute step run while defaultOutputType is none of active,      *)
(* predictive, predictedActiveCells raises and leaves all four output      *)
(* arrays as they were.                                                    *)
(***************************************************************************)
C6_BadSelectorWritesNothing ==
  [][(last'.op = "compute" /\ self.defaultOutputType \notin DefaultOutputTypes)
       => (last'.raised # "none" /\ outputs' = outputs)]_vars

(***************************************************************************)
(* C7.  After a compute step that returned, bottomUpOut equals the output  *)
(* that defaultOutputType names: activeCells for active, predictiveCells   *)
(* for predictive, predictedActiveCells for predictedActiveCells.          *)
(***************************************************************************)
C7_DefaultOutputIsNamedOutput ==
  Computed(last)
    => /\ self.defaultOutputType \in DefaultOutputTypes
       /\ self.defaultOutputType = "active"
            => outputs.bottomUpOut = outputs.activeCells
       /\ self.defaultOutputType = "predictive"
            => outputs.bottomUpOut = outputs.predictiveCells
       /\ self.defaultOutputType = "predictedActiveCells"
            => outputs.bottomUpOut = outputs.predictedActiveCells

\* the selector was set to predictive between steps, and the step wrote a
\* predictive set that differs from the active set
C7_Witness ==
  /\ Computed(last)
  /\ self.defaultOutputType = "predictive"
  /\ outputs.predictiveCells # outputs.activeCells
  /\ outputs.bottomUpOut = outputs.predictiveCells

\* the same for predictedActiveCells
C7_WitnessPredictedActive ==
  /\ Computed(last)
  /\ self.defaultOutputType = "predictedActiveCells"
  /\ outputs.predictedActiveCells # outputs.activeCells
  /\ outputs.bottomUpOut = outputs.predictedActiveCells

(***************************************************************************)
(* C8.  After every compute step that returned, the three output arrays,   *)
(* activeState and previouslyPredictedCells have columnCount *             *)
(* cellsPerColumn elements, as getOutputElementCount reports, for the      *)
(* configuration as it is then.                                            *)
(***************************************************************************)
C8_LengthsFollowConfiguration ==
  Computed(last)
    => LET n == self.columnCount * self.cellsPerColumn
       IN  /\ Length(outputs.activeCells) = n
           /\ Length(outputs.predictiveCells) = n
           /\ Length(outputs.predictedActiveCells) = n
           /\ Length(self.activeState) = n
           /\ Length(self.previouslyPredictedCells) = n
           /\ GetOutputElementCount(self, "activeCells").value = n

(***************************************************************************)
(* C9.  The instance always has an inputWidth, equal to columnCount *      *)
(* cellsPerColumn.                                                         *)
(***************************************************************************)
C9_InputWidthDerived ==
  /\ HasAttr(self, "inputWidth")
  /\ self.inputWidth = self.columnCount * self.cellsPerColumn

(***************************************************************************)
(* C10.  setParameter given a name that is no Configuration field raises   *)
(* and changes nothing of the instance.                                    *)
(***************************************************************************)
C10_UnknownNameRejected ==
  [][(last'.op = "setParameter" /\ last'.args[1] \notin ConfigurationFields)
       => (last'.raised # "none" /\ self' = self)]_vars

(***************************************************************************)
(* C11.  setParameter given, for defaultOutputType, a value that is none   *)
(* of active, predictive, predictedActiveCells, or, for temporalImp, a     *)
(* value that names no backend, raises and leaves the stored value as it   *)
(* was; so defaultOutputType is one of its three values in every state.    *)
(***************************************************************************)
C11_EnumeratedFieldsValidatedAtSet ==
  [][/\ (/\ last'.op = "setParameter"
         /\ \/ /\ last'.args[1] = "defaultOutputType"
               /\ last'.args[2] \notin DefaultOutputTypes
            \/ /\ last'.args[1] = "temporalImp"
               /\ last'.args[2] \notin KnownBackends)
          => /\ last'.raised # "none"
             /\ self'[last'.args[1]] = self[last'.args[1]]
     /\ self'.defaultOutputType \in DefaultOutputTypes]_vars

(***************************************************************************)
(* C12.  A compute step given a resetIn array that has not exactly one     *)
(* element raises; it calls no reset of the backend, and the predictive    *)
(* set it kept for the next step stays as the backend reported it, even    *)
(* when the first element of the array is nonzero.                         *)
(***************************************************************************)
C12_MalformedResetInRaises ==
  [][(/\ last'.op = "compute"
      /\ "resetIn" \in DOMAIN last'.args
      /\ Length(last'.args.resetIn) # 1)
       => /\ last'.raised # "none"
          /\ \A k \in 1..Len(last'.calls) : last'.calls[k].op # "reset"
          /\ self._tm # None
               => /\ IsDense(self'.previouslyPredictedCells,
                             self._tm.numberOfCells,
                             Response(last', "getPredictiveCells"))
                  /\ history' = "stepped"]_vars

\* a resetIn of two elements, the first nonzero, made the step raise, and
\* the predictive set of the step was kept
C12_Witness ==
  /\ last.op = "compute"
  /\ "resetIn" \in DOMAIN last.args
  /\ Length(last.args.resetIn) = 2
  /\ last.args.resetIn[0] # 0
  /\ last.raised = "AssertionError"
  /\ SomeOne(self.previouslyPredictedCells)

\* the same for a resetIn of no element
C12_WitnessEmpty ==
  /\ last.op = "compute"
  /\ "resetIn" \in DOMAIN last.args
  /\ Length(last.args.resetIn) = 0
  /\ last.raised = "AssertionError"
  /\ SomeOne(self.previouslyPredictedCells)

(***************************************************************************)
(* C13.  A compute called while no initialize has built a backend raises,  *)
(* writes no output array and changes nothing of the instance: it has no   *)
(* backend and no derived state after it, as before.  An initialize that   *)
(* follows it, with a temporalImp the factory knows, builds the backend    *)
(* and the derived state.                                                  *)
(***************************************************************************)
C13_ComputeBeforeInitializeRaises ==
  [][/\ (last'.op = "compute" /\ created = 0)
          => /\ last'.raised # "none"
             /\ last'.calls = <<>>
             /\ outputs' = outputs
             /\ self' = self
             /\ self'._tm = None
             /\ ~HasAttr(self', "activeState")
             /\ ~HasAttr(self', "previouslyPredictedCells")
             /\ history' = "uninit"
     /\ (/\ last.op = "compute"
         /\ last.raised # "none"
         /\ created = 0
         /\ last'.op = "initialize"
         /\ self.temporalImp \in KnownBackends)
          => /\ last'.raised = "none"
             /\ created' = 1
             /\ self'._tm.id = 1
             /\ self'.activeState = Zeros(self'._tm.numberOfCells)
             /\ self'.previouslyPredictedCells
                  = Zeros(self'._tm.numberOfCells)]_vars

\* a compute has raised for want of a backend
C13_Witness ==
  /\ last.op = "compute"
  /\ last.raised = "AttributeError"
  /\ created = 0
  /\ self._tm = None

\* the same, with the output arrays allocated
C13_WitnessAllocated ==
  /\ C13_Witness
  /\ DOMAIN outputs = OutputNames
  /\ \A name \in OutputNames : AllZero(outputs[name])

(***************************************************************************)
(* C14.  A reset called while the instance has no backend returns without  *)
(* raising, calls nothing and changes nothing.  A reset called once a      *)
(* backend is built calls the backend's reset exactly once, makes every    *)
(* element of previouslyPredictedCells zero, and changes nothing else.     *)
(***************************************************************************)
C14_ResetGuardedByBackend ==
  [][last'.op = "reset"
       => /\ last'.raised = "none"
          /\ outputs' = outputs
          /\ IF self._tm = None
             THEN /\ last'.calls = <<>>
                  /\ self' = self
                  /\ history' = history
             ELSE /\ CallOps(last') = <<"reset">>
                  /\ AllZero(self'.previouslyPredictedCells)
                  /\ DOMAIN self'.previouslyPredictedCells
                       = DOMAIN self.previouslyPredictedCells
                  /\ self' = [self EXCEPT !.previouslyPredictedCells
                                            = self'.previouslyPredictedCells]
                  /\ history' = "clean"]_vars

\* a reset has called the backend once and has cleared a predictive set
\* that was not empty
C14_Witness ==
  /\ last.op = "reset"
  /\ last.before = "stepped"
  /\ CallOps(last) = <<"reset">>
  /\ SomeOne(outputs.predictiveCells)
  /\ AllZero(self.previouslyPredictedCells)

\* a reset has returned while there is no backend
C14_WitnessNoBackend ==
  /\ last.op = "reset"
  /\ last.raised = "none"
  /\ last.calls = <<>>
  /\ self._tm = None

(***************************************************************************)
(* C15.  A reset called when a reset was the last thing to change the      *)
(* derived state (no compute since) leaves the instance, its activeState,  *)
(* previouslyPredictedCells and configuration, and the output arrays as    *)
(* the first reset left them; so the steps that follow start from the same *)
(* state, whether reset was called once or twice.                          *)
(***************************************************************************)
C15_ResetIdempotent ==
  [][(last'.op = "reset" /\ history = "clean")
       => /\ last'.raised = "none"
          /\ self' = self
          /\ outputs' = outputs
          /\ history' = history
          /\ created' = created]_vars

\* a second reset, after a first one that cleared a predictive set that
\* was not empty, while the active cells of the last step are kept
C15_Witness ==
  /\ last.op = "reset"
  /\ last.before = "clean"
  /\ SomeOne(outputs.predictiveCells)
  /\ SomeOne(self.activeState)
  /\ AllZero(self.previouslyPredictedCells)

(***************************************************************************)
(* C16.  An initialize that builds a backend and returns has a backend     *)
(* that reports columnCount * cellsPerColumn cells, and has allocated      *)
(* activeState and previouslyPredictedCells with that many elements: when  *)
(* the backend reports another count, initialize raises.                   *)
(***************************************************************************)
C16_MismatchedCellCountIsFatal ==
  [][(last'.op = "initialize" /\ self._tm = None /\ last'.raised = "none")
       => LET n == self'.columnCount * self'.cellsPerColumn
          IN  /\ self'._tm.numberOfCells = n
              /\ Length(self'.activeState) = n
              /\ Length(self'.previouslyPredictedCells) = n]_vars

(***************************************************************************)
(* C17.  An initialize run while temporalImp names no backend the factory  *)
(* knows raises and changes nothing of the instance: no backend, no        *)
(* activeState, no previouslyPredictedCells.  A reset right after it is a  *)
(* no-op, and an initialize called once temporalImp names a known backend  *)
(* builds the backend and the derived state.                               *)
(***************************************************************************)
C17_UnknownBackendRaises ==
  [][/\ (/\ last'.op = "initialize"
         /\ self._tm = None
         /\ self.temporalImp \notin KnownBackends)
          => /\ last'.raised # "none"
             /\ last'.calls = <<>>
             /\ self' = self
             /\ ~HasAttr(self', "activeState")
             /\ ~HasAttr(self', "previouslyPredictedCells")
             /\ created' = created
             /\ history' = history
     /\ (/\ last.op = "initialize"
         /\ last.raised # "none"
         /\ last'.op = "reset")
          => /\ last'.raised = "none"
             /\ last'.calls = <<>>
             /\ self' = self
             /\ outputs' = outputs
     /\ (/\ last'.op = "initialize"
         /\ self._tm = None
         /\ self.temporalImp \in KnownBackends)
          => /\ last'.raised = "none"
             /\ created' = created + 1
             /\ self'._tm.id = created'
             /\ self'.activeState = Zeros(self'._tm.numberOfCells)
             /\ self'.previouslyPredictedCells
                  = Zeros(self'._tm.numberOfCells)]_vars

\* an initialize has raised on an unknown temporalImp
C17_Witness ==
  /\ last.op = "initialize"
  /\ last.raised = "Exception"
  /\ self.temporalImp \notin KnownBackends
  /\ self._tm = None
  /\ history = "uninit"

(***************************************************************************)
(* C18.  getOutputElementCount returns columnCount * cellsPerColumn, of    *)
(* the configuration as it is at the call, for bottomUpOut, activeCells,   *)
(* predictiveCells and predictedActiveCells, raises for any other name,    *)
(* and in both cases changes nothing of the instance or of the outputs.    *)
(***************************************************************************)
C18_OutputElementCount ==
  [][last'.op = "getOutputElementCount"
       => /\ self' = self
          /\ outputs' = outputs
          /\ history' = history
          /\ created' = created
          /\ IF last'.args[1] \in {"bottomUpOut", "activeCells",
                                    "predictiveCells", "predictedActiveCells"}
             THEN /\ last'.raised = "none"
                  /\ last'.value = self.columnCount * self.cellsPerColumn
             ELSE last'.raised # "none"]_vars

\* the count of a configuration of several columns of several cells
C18_Witness ==
  /\ last.op = "getOutputElementCount"
  /\ last.raised = "none"
  /\ self.columnCount > 1
  /\ self.cellsPerColumn > 1
  /\ last.value = self.columnCount * self.cellsPerColumn

\* the call has raised for a name that is no output of the region
C18_WitnessOtherName ==
  /\ last.op = "getOutputElementCount"
  /\ last.args[1] = "feedForwardOutput"
  /\ last.raised = "Exception"

(***************************************************************************)
(* C19.  learningMode, inferenceMode and formInternalConnections are       *)
(* booleans in every state.  A setParameter of one of them, given a        *)
(* number, returns and stores TRUE if the number is not zero and FALSE if  *)
(* it is zero.  The learn flag a compute passes to the backend is the      *)
(* learningMode stored then: when the compute follows a setParameter of    *)
(* learningMode, it is TRUE exactly if the number given was not zero.      *)
(***************************************************************************)
C19_BooleanParametersCoerced ==
  [][/\ self'.learningMode \in BOOLEAN
     /\ self'.inferenceMode \in BOOLEAN
     /\ self'.formInternalConnections \in BOOLEAN
     /\ (/\ last'.op = "setParameter"
         /\ last'.args[1] \in {"learningMode", "inferenceMode",
                                "formInternalConnections"})
          => /\ last'.raised = "none"
             /\ self'[last'.args[1]] <=> (last'.args[2] # 0)
     /\ (last'.op = "compute" /\ Len(last'.calls) >= 1)
          => /\ last'.calls[1].op = "compute"
             /\ last'.calls[1].learn = self.learningMode
             /\ (last.op = "setParameter" /\ last.args[1] = "learningMode")
                  => (last'.calls[1].learn <=> (last.args[2] # 0))]_vars

\* learningMode was given 2, and holds TRUE
C19_Witness ==
  /\ last.op = "setParameter"
  /\ last.args = <<"learningMode", 2>>
  /\ last.raised = "none"
  /\ self.learningMode = TRUE

\* a step has run with learning turned off by a setParameter
C19_WitnessLearnOff ==
  /\ Computed(last)
  /\ last.calls[1].learn = FALSE
  /\ self.learningMode = FALSE

(***************************************************************************)
(* C20.  A compute step of an initialized region that raises, for a        *)
(* resetIn array that has not exactly one element or for a                 *)
(* defaultOutputType that names no output, has made no call to the backend *)
(* and leaves activeState, previouslyPredictedCells and the output arrays  *)
(* as they were; so the step after it starts from the predictive set of    *)
(* the last step that returned.                                            *)
(***************************************************************************)
C20_FailingStepHasNoEffect ==
  [][(/\ last'.op = "compute"
      /\ self._tm # None
      /\ last'.raised \in {"AssertionError", "Exception"})
       => /\ last'.calls = <<>>
          /\ self'.activeState = self.activeState
          /\ self'.previouslyPredictedCells = self.previouslyPredictedCells
          /\ outputs' = outputs
          /\ history' = history]_vars

(***************************************************************************)
(* C21.  The active columns a compute step passes to the backend are the   *)
(* indices of bottomUpIn whose value is not zero, whatever the value (2 as *)
(* well as 1); likewise the external and apical cells passed to an         *)
(* Extended backend are the indices of externalInput and topDownIn whose   *)
(* value is not zero.                                                      *)
(***************************************************************************)
C21_NonzeroIsActive ==
  (last.op = "compute" /\ Len(last.calls) >= 1)
    => LET call == last.calls[1]
           NonZero(v) == {i \in DOMAIN v : v[i] # 0}
       IN  /\ call.activeColumns = NonZero(last.args.bottomUpIn)
           /\ ("activeExternalCells" \in DOMAIN call
                 /\ "externalInput" \in DOMAIN last.args)
                => call.activeExternalCells.cells
                     = NonZero(last.args.externalInput)
           /\ ("activeApicalCells" \in DOMAIN call
                 /\ "topDownIn" \in DOMAIN last.args)
                => call.activeApicalCells.cells = NonZero(last.args.topDownIn)

(***************************************************************************)
(* C22.  A compute step of an initialized region calls the backend's       *)
(* compute exactly once, as its first backend call, before it asks for the *)
(* active and the predictive cells.  A Basic backend (a compute entry of   *)
(* three parameters, self included) is given the active columns and        *)
(* learningMode and nothing else.  An Extended backend (more parameters) is *)
(* given, besides, the external and the apical cells, each none exactly    *)
(* when its input is absent, and formInternalConnections.  The two flags   *)
(* are the values the instance holds when the step starts.                 *)
(***************************************************************************)
C22_BackendCallConvention ==
  [][(last'.op = "compute" /\ self._tm # None)
       => LET calls == last'.calls
              call == calls[1]
          IN  /\ Len(calls) >= 1
              /\ {k \in 1..Len(calls) : calls[k].op = "compute"} = {1}
              /\ call.learn = self.learningMode
              /\ IF self._tm.computeArgs <= 3
                 THEN DOMAIN call = {"op", "activeColumns", "learn"}
                 ELSE /\ DOMAIN call
                          = {"op", "activeColumns", "learn",
                             "activeExternalCells", "activeApicalCells",
                             "formInternalConnections"}
                      /\ call.activeExternalCells.present
                           <=> "externalInput" \in DOMAIN last'.args
                      /\ call.activeApicalCells.present
                           <=> "topDownIn" \in DOMAIN last'.args
                      /\ call.formInternalConnections
                           = self.formInternalConnections]_vars

\* an Extended backend was given its external cells, and the two flags as
\* setParameter turned them off after initialize
C22_Witness ==
  /\ Computed(last)
  /\ self._tm.kind = "Extended"
  /\ last.calls[1].activeExternalCells.present
  /\ last.calls[1].activeExternalCells.cells # {}
  /\ last.calls[1].formInternalConnections = FALSE
  /\ last.calls[1].learn = FALSE

\* an Extended backend was given none for the two absent inputs
C22_WitnessAbsent ==
  /\ Computed(last)
  /\ self._tm.kind = "Extended"
  /\ ~last.calls[1].activeExternalCells.present
  /\ ~last.calls[1].activeApicalCells.present

\* a Basic backend was given learningMode as setParameter turned it off
C22_WitnessBasic ==
  /\ Computed(last)
  /\ self._tm.kind = "Basic"
  /\ last.calls[1].learn = FALSE

(***************************************************************************)
(* C23.  An initialize that builds the backend hands createModel exactly   *)
(* the entries of the candidate arguments (every attribute of the          *)
(* instance, and columnDimensions = (columnCount,)) whose name the         *)
(* constructor of the configured backend accepts, each with the value the  *)
(* instance holds at the call.  The other entries are dropped, nothing is  *)
(* raised, and the attributes the instance had are left as they were.      *)
(***************************************************************************)
C23_ConstructorArgumentsFiltered ==
  [][(last'.op = "initialize" /\ Len(last'.calls) = 1)
       => LET call == last'.calls[1]
              accepted == GetConstructorArguments(self.temporalImp)
              candidates == (DOMAIN self) \cup {"columnDimensions"}
          IN  /\ call.op = "createModel"
              /\ call.temporalImp = self.temporalImp
              /\ DOMAIN call.args = candidates \cap accepted
              /\ \A name \in DOMAIN call.args :
                   call.args[name] = IF name = "columnDimensions"
                                     THEN <<self.columnCount>>
                                     ELSE self[name]
              /\ last'.raised = "none"
              /\ \A name \in DOMAIN self \ {"_tm"} :
                   self'[name] = self[name]
              /\ "columnDimensions" \notin DOMAIN self']_vars

\* an Extended backend was built with the formInternalConnections that
\* setParameter had turned off, and without learningMode
C23_Witness ==
  /\ last.op = "initialize"
  /\ Len(last.calls) = 1
  /\ last.calls[1].temporalImp = "extended"
  /\ last.calls[1].args.formInternalConnections = FALSE
  /\ last.calls[1].args.columnDimensions = <<self.columnCount>>
  /\ "learningMode" \notin DOMAIN last.calls[1].args

\* a Basic backend was built without formInternalConnections
C23_WitnessBasic ==
  /\ last.op = "initialize"
  /\ Len(last.calls) = 1
  /\ last.calls[1].temporalImp = "tm"
  /\ "formInternalConnections" \notin DOMAIN last.calls[1].args
  /\ "cellsPerColumn" \in DOMAIN last.calls[1].args

(***************************************************************************)
(* C24.  An L2Column has inputWidth = columnCount * cellsPerColumn when it *)
(* is constructed and after every setParameter call.  A call that returns, *)
(* a set of inputWidth itself included, leaves inputWidth derived from the *)
(* columnCount and cellsPerColumn it leaves; a call given a name that is   *)
(* no attribute raises and changes nothing of the instance.                *)
(***************************************************************************)
C24_L2InputWidthDerived ==
  [][/\ self.inputWidth = self.columnCount * self.cellsPerColumn
     /\ self'.inputWidth = self'.columnCount * self'.cellsPerColumn
     /\ (last'.op = "setParameter" /\ last'.raised = "none")
          => /\ last'.args[1] \in {"columnCount", "cellsPerColumn"}
                  => self'[last'.args[1]] = last'.args[2]
             /\ \A name \in DOMAIN self \ {last'.args[1], "inputWidth"} :
                  self'[name] = self[name]
     /\ (/\ last'.op = "setParameter"
         /\ last'.args[1] \notin DOMAIN self
         /\ last'.args[1] \notin {"learningMode", "inferenceMode"})
          => /\ last'.raised # "none"
             /\ self' = self]_vars

\* columnCount was set to another value, and inputWidth has followed
C24_Witness ==
  /\ last.op = "setParameter"
  /\ last.args[1] = "columnCount"
  /\ last.raised = "none"
  /\ "_tm" \notin DOMAIN self
  /\ self.columnCount = 2
  /\ self.cellsPerColumn = 2
  /\ self.inputWidth = 4

\* inputWidth was set to 7, and holds the product all the same
C24_WitnessSetInputWidth ==
  /\ last.op = "setParameter"
  /\ last.args = <<"inputWidth", 7>>
  /\ last.raised = "none"
  /\ self.inputWidth = self.columnCount * self.cellsPerColumn

\* a set of an unknown name has raised
C24_WitnessUnknown ==
  /\ last.op = "setParameter"
  /\ last.args[1] = "bogus"
  /\ last.raised = "Exception"
  /\ "_tm" \notin DOMAIN self

(***************************************************************************)
(* C25.  Over a Basic backend, a compute step does the same whatever       *)
(* externalInput and topDownIn it is given, and whether it is given them   *)
(* or not: from any state, for the same bottomUpIn and resetIn and the     *)
(* same answers of the backend, it makes the same backend calls, leaves    *)
(* the same instance and the same output arrays, and raises or returns     *)
(* alike.  Two runs that differ in these inputs alone so go through the    *)
(* same states.                                                            *)
(***************************************************************************)
WithoutLateral(inputs) ==
  [name \in (DOMAIN inputs) \ {"externalInput", "topDownIn"} |-> inputs[name]]

LateralVariants(inputs) ==
  LET base == WithoutLateral(inputs)
      vs == {Vec(<<0, 1>>), Vec(<<2, 0>>)}
  IN  {base}
        \cup {base @@ ("externalInput" :> e) : e \in vs}
        \cup {base @@ ("topDownIn" :> t) : t \in vs}
        \cup {base @@ ("externalInput" :> e) @@ ("topDownIn" :> t) :
                e \in vs, t \in vs}

C25_BasicIgnoresLateralInputs ==
  (self._tm # None /\ self._tm.computeArgs <= 3)
    => \A inputs \in ComputeInputs :
         \A active \in CellSets(self._tm), predictive \in CellSets(self._tm) :
           \A variant \in LateralVariants(inputs) :
             ComputeBody(Frame(self, outputs, history), variant, active,
                         predictive)
               = ComputeBody(Frame(self, outputs, history),
                             WithoutLateral(inputs), active, predictive)

\* a step over a Basic backend was given an externalInput and a topDownIn
\* that are not empty, and has returned
C25_Witness ==
  /\ Computed(last)
  /\ self._tm.kind = "Basic"
  /\ "externalInput" \in DOMAIN last.args
  /\ "topDownIn" \in DOMAIN last.args
  /\ SomeOne(last.args.externalInput)
  /\ SomeOne(last.args.topDownIn)
  /\ DOMAIN last.calls[1] = {"op", "activeColumns", "learn"}

(***************************************************************************)
(* C26.  A compute step does the same whether it is given a sequenceIdIn   *)
(* or not, and whatever its value: from any state, for the same other      *)
(* inputs and the same answers of the backend, it makes the same backend   *)
(* calls, leaves the same instance (activeState and                        *)
(* previouslyPredictedCells included) and the same output arrays.  Two     *)
(* runs that differ in sequenceIdIn alone so go through the same states.   *)
(***************************************************************************)
C26_SequenceIdNotConsumed ==
  \A inputs \in ComputeInputs, sid \in SequenceIdInputs :
    \A active \in CellSets(self._tm), predictive \in CellSets(self._tm) :
      ComputeBody(Frame(self, outputs, history), WithSequenceId(inputs, sid),
                  active, predictive)
        = ComputeBody(Frame(self, outputs, history), inputs, active,
                      predictive)

\* a step given a nonzero sequenceIdIn, after a step that predicted cells,
\* has returned with the predicted-active cells of an unbroken sequence
C26_Witness ==
  /\ Computed(last)
  /\ "sequenceIdIn" \in DOMAIN last.args
  /\ last.args.sequenceIdIn[0] # 0
  /\ last.before = "stepped"
  /\ SomeOne(outputs.predictedActiveCells)
  /\ SomeOne(self.previouslyPredictedCells)

====
